---- MODULE Spec2Model ----
(***************************************************************************)
(* State-machine model of gallery_dl/extractor/pixiv.py: the PixivAppAPI   *)
(* client (login with a TTL credential cache, _call, _pagination) and the  *)
(* PixivExtractor.items() generators of the extractor variants.            *)
(*                                                                         *)
(* Python values: None is the record None; a str is a sequence of          *)
(* characters where the code looks inside it and a TLA+ string where it is *)
(* only passed on; a JSON member that is a string or null is None or       *)
(* Str(characters); a dict is a record or a function; a list is a          *)
(* sequence.                                                               *)
(***************************************************************************)
EXTENDS Integers, Sequences, FiniteSets, TLC

VARIABLES
    now,        \* time.time(), in seconds
    cache,      \* the credential cache shared by all runs: key -> [value, expires]
    username,   \* PixivAppAPI.username
    password,   \* PixivAppAPI.password
    user_info,  \* PixivAppAPI.user_info
    headers,    \* session.headers, the members set after construction
    net,        \* every request the run's session has sent, in order
    log,        \* the messages the run's logger has written, in order
    exc,        \* the exception that ended the current run ("" while it runs)
    ret,        \* the value returned by the last API operation
    resp,       \* the last HTTP response the session received
    lastLogin,  \* history: identity -> time and result of its last successful token POST
    calls,      \* number of login()/_call() invocations made so far
    ticks,      \* number of clock advances made so far
    \* the host that runs extractions in threads, each with its own PixivAppAPI
    serialized, \* whether the host lets only one thread at a time go through login()
    thread,     \* per thread: its identity, its place in login(), its locals, its client
    tokenPosts, \* history: the token POSTs of the threads, in order
    \* the generator object made by _pagination(endpoint, params)
    pagState,   \* "none", "new", "call", "iter", "suspended", "done" or "raised"
    endpoint,   \* its endpoint argument
    params,     \* its params dict
    data,       \* the page it is iterating: the body of its last response
    idx,        \* how many items of data["illusts"] it has yielded
    item,       \* the value its last yield handed to the consumer
    pagesSeen,  \* history: the bodies it has received, in order
    out,        \* history: the values it has yielded, in order
    \* the extractor and the generator object made by its items()
    self,       \* the extractor's attributes
    pc,         \* where items() stands: "none", "start", "version", "directory", "for",
                \* "wait", "body", "zip", "page", "done" or "raised"
    metadata,   \* the local metadata of items()
    worksIt,    \* what is left of the tuple returned by PixivWorkExtractor.works()
    heap,       \* the work dicts pulled so far, as they are now; the last is the local work
    fetched,    \* history: the same work dicts as they were when pulled
    locals,     \* the locals meta_single_page, meta_pages, num and ugoira of items()
    emitted     \* the messages items() has yielded, in order

apiVars == <<now, cache, username, password, user_info, headers, net, log, exc, ret,
             resp, lastLogin, calls, ticks, serialized, thread, tokenPosts>>
pagVars == <<pagState, endpoint, params, data, idx, item, pagesSeen, out>>
itemVars == <<self, pc, metadata, worksIt, heap, fetched, locals, emitted>>
vars == <<apiVars, pagVars, itemVars>>

----------------------------------------------------------------------------
(* Bounds of the model *)

MaxOps == 4          \* login()/_call() invocations in the runs on one cache
MaxTicks == 3        \* clock advances
MaxPages == 3        \* responses one _pagination generator receives
MaxItems == 3        \* items in all the pages one generator receives
MaxLists == 2        \* list responses in one extraction run
MaxWorks == 2        \* works in all the list responses of one extraction run
MaxPageCount == 101  \* pages of a multi-image work

----------------------------------------------------------------------------
(* Python values *)

None == [t |-> "None"]

Str(s) == [str |-> s]

\* Python truthiness of a value that is a string or None
Truthy(v) == v # None /\ v.str # << >>

\* s.rpartition(sep)[2]: the text after the last sep, all of s when sep is not in it
RPartitionTail(s, sep) ==
    LET at == {i \in DOMAIN s : s[i] = sep}
    IN  IF at = {}
        THEN s
        ELSE LET last == CHOOSE i \in at : \A j \in at : j <= i
             IN  SubSeq(s, last + 1, Len(s))

\* dict operations: {}, del d[k], d[k] = v, d.update(m)
EmptyDict == [k \in {} |-> None]
DictDel(d, keys) == [k \in DOMAIN d \ keys |-> d[k]]
DictSet(d, key, v) == (key :> v) @@ d
DictUpdate(d, m) == m @@ d

\* str(n) for n >= 0, as characters
DigitChars == <<"0", "1", "2", "3", "4", "5", "6", "7", "8", "9">>
RECURSIVE Decimal(_)
Decimal(n) ==
    IF n < 10 THEN <<DigitChars[n + 1]>>
    ELSE Decimal(n \div 10) \o <<DigitChars[(n % 10) + 1]>>

\* "{:0w}".format(n): zeros in front up to a width of w, never a cut
ZeroPad(n, w) ==
    LET ds == Decimal(n)
    IN  IF Len(ds) >= w THEN ds ELSE [i \in 1..(w - Len(ds)) |-> "0"] \o ds

\* s.replace(old, new), on a string held as a sequence of parts
Replace(s, old, new) == [i \in DOMAIN s |-> IF s[i] = old THEN new ELSE s[i]]

\* all sequences over S of length at most n
SeqsUpTo(S, n) == UNION { [1..k -> S] : k \in 0..n }

RECURSIVE Flatten(_)
Flatten(ss) == IF ss = << >> THEN << >> ELSE Head(ss) \o Flatten(Tail(ss))

----------------------------------------------------------------------------
(* The platform (environment): what the servers may answer *)

Identities == {<<"u1", "s1">>, <<"u1", "s2">>, <<"u2", "s1">>}
Tokens == {"tokA", "tokB"}

\* profile the token endpoint returns for an account
ServerUser(u) == [id |-> IF u = "u1" THEN 11 ELSE 12, account |-> u]

\* answers of the token endpoint: response.status_code and response.json()["response"]
TokenResponsesWith(tokens) ==
    { [status |-> s, access_token |-> t] : s \in {200, 400}, t \in tokens }
TokenResponses == TokenResponsesWith(Tokens)

\* an image URL of the platform: host, work id, page number, extension
ImageUrl(id, n, ext) ==
    <<"i", ".", "x", "/">> \o Decimal(id) \o <<"_", "p">> \o Decimal(n) \o <<".">> \o ext

Png == <<"p", "n", "g">>
Jpg == <<"j", "p", "g">>

\* a work record as the API returns it: k pages, owned by the user with id uid
RawWork(id, uid, type, k, ext, tags) ==
    [id |-> id,
     user |-> [id |-> uid, account |-> "artist"],
     type |-> type,
     page_count |-> k,
     meta_single_page |-> IF k = 1 THEN [original_image_url |-> ImageUrl(id, 0, ext)]
                                   ELSE EmptyDict,
     meta_pages |-> IF k = 1 THEN << >>
                    ELSE [n \in 1..k |-> [image_urls |-> [original |-> ImageUrl(id, n - 1, ext)]]],
     image_urls |-> [medium |-> ImageUrl(id, 0, Jpg)],
     tags |-> [i \in DOMAIN tags |-> [name |-> tags[i]]]]

\* profile returned by user/detail
ServerProfile(uid) == [id |-> uid, account |-> "artist", comment |-> "hello"]

\* animation metadata returned by ugoira/metadata
ServerUgoira(id) ==
    [zip_urls |-> [medium |-> <<"https://i.x/zip/", Decimal(id), "_ugoira600x600", ".zip">>],
     frames |-> <<[file |-> "000000.jpg", delay |-> "100"],
                  [file |-> "000001.jpg", delay |-> "70"]>>]

----------------------------------------------------------------------------
(* PixivAppAPI *)

maxage == 3590
keyarg == 1

\* The world an API operation reads and writes, passed through the calls it makes.
World == [cache |-> cache, user_info |-> user_info, headers |-> headers, net |-> net,
          log |-> log, exc |-> "", ret |-> None, resp |-> resp,
          lastLogin |-> lastLogin]

SetWorld(w) ==
    /\ cache' = w.cache
    /\ user_info' = w.user_info
    /\ headers' = w.headers
    /\ net' = w.net
    /\ log' = w.log
    /\ exc' = w.exc
    /\ ret' = w.ret
    /\ resp' = w.resp
    /\ lastLogin' = w.lastLogin

Raise(w, e) == [w EXCEPT !.exc = e, !.ret = None]
Return(w, v) == [w EXCEPT !.ret = v]

\* "Bearer " + data["access_token"]
Bearer(tok) == <<"Bearer ", tok>>

\* session.post / session.get: the request goes out, the response comes back
Send(w, request, response) ==
    [w EXCEPT !.net = Append(@, request), !.resp = response]

\* the body of _login_impl: one POST to the token endpoint
login_impl_body(w, u, p, tok) ==
    LET w1 == Send([w EXCEPT !.log = Append(@, <<"info", "Logging in as", u>>)],
                   [method |-> "POST", url |-> "auth/token",
                    username |-> u, password |-> p],
                   tok)
    IN  IF tok.status >= 400
        THEN Raise(w1, "AuthenticationError")
        ELSE LET value == <<ServerUser(u), Bearer(tok.access_token)>>
             IN  Return([w1 EXCEPT !.lastLogin =
                            (<<u, p>> :> [at |-> now, value |-> value]) @@ @],
                        value)

\* key of a decorated call: positional argument number keyarg of (self, username, password)
CacheKey(args) == args[keyarg + 1]

\* the cache decorator: an entry answers until it expires
CacheHit(w, key, t) ==
    key \in DOMAIN w.cache /\ t < w.cache[key].expires

\* the cache decorator, the decorated call having come back as r: a returned value is
\* stored for maxage seconds, an exception stores nothing
CacheStore(r, key, t) ==
    IF r.exc # ""
    THEN r
    ELSE [r EXCEPT !.cache = (key :> [value |-> r.ret, expires |-> t + maxage]) @@ @]

\* @cache(maxage=3590, keyarg=1) def _login_impl: an exception stores nothing
_login_impl(w, u, p, tok) ==
    LET key == CacheKey(<<"self", u, p>>)
    IN  IF CacheHit(w, key, now)
        THEN Return(w, w.cache[key].value)
        ELSE CacheStore(login_impl_body(w, u, p, tok), key, now)

\* a login that forgets the profile and the header when the token request fails
login_assign_reset(r) ==
    IF r.exc # ""
    THEN [r EXCEPT !.user_info = None, !.headers = << >>]
    ELSE [r EXCEPT !.user_info = r.ret[1],
                   !.headers = ("Authorization" :> r.ret[2]) @@ @,
                   !.ret = None]

\* login, _login_impl having come back as r: the assignments to user_info and to the
\* Authorization header
login_assign(r) ==
    IF r.exc # ""
    THEN r
    ELSE [r EXCEPT !.user_info = r.ret[1],
                   !.headers = ("Authorization" :> r.ret[2]) @@ @,
                   !.ret = None]

\* a login that does not go through the cache
login_uncached(w, tok) == login_assign(login_impl_body(w, username, password, tok))

login(w, tok) == login_assign(_login_impl(w, username, password, tok))

\* a request that takes every status from 400 on for "not found"
call_request_all_not_found(r, ep, ps, get) ==
    IF r.exc # ""
    THEN r
    ELSE LET r1 == Send(r, [method |-> "GET", url |-> ep, params |-> ps], get)
         IN  IF 200 <= get.status /\ get.status < 400
             THEN Return(r1, get.body)
             ELSE Raise(r1, "NotFoundError")

\* _call, self.login() having come back as r: the GET and the test of its status
call_request(r, ep, ps, get) ==
    IF r.exc # ""
    THEN r
    ELSE LET r1 == Send(r, [method |-> "GET", url |-> ep, params |-> ps], get)
         IN  IF 200 <= get.status /\ get.status < 400
             THEN Return(r1, get.body)
             ELSE IF get.status = 404
             THEN Raise(r1, "NotFoundError")
             ELSE Raise([r1 EXCEPT !.log = Append(@, <<"error", "API request failed",
                                                     get.body>>)],
                        "StopExtraction")

\* a _call that takes every status from 400 on for "not found"
call_all_not_found(w, ep, ps, tok, get) ==
    call_request_all_not_found(login(w, tok), ep, ps, get)

\* _call: login, then one GET; get is the response [status, body]
_call(w, ep, ps, tok, get) == call_request(login(w, tok), ep, ps, get)

\* the call r has come back: value[key] of what it returned
GetItem(r, key) == IF r.exc # "" THEN r ELSE Return(r, r.ret[key])

\* user_detail(user_id): the "user" member of the body
user_detail(w, user_id, tok, get) ==
    GetItem(_call(w, "v1/user/detail", [user_id |-> user_id], tok, get), "user")

\* illust_detail(illust_id): the "illust" member of the body
illust_detail(w, illust_id, tok, get) ==
    GetItem(_call(w, "v1/illust/detail", [illust_id |-> illust_id], tok, get), "illust")

\* ugoira_metadata(illust_id): the "ugoira_metadata" member of the body
ugoira_metadata(w, illust_id, tok, get) ==
    GetItem(_call(w, "v1/ugoira/metadata", [illust_id |-> illust_id], tok, get), "ugoira_metadata")

----------------------------------------------------------------------------
(* Runs of the API client against the shared cache (single-threaded) *)

GetStatuses == {199, 200, 399, 400, 404, 500}
UserDetailResponsesWith(statuses) ==
    { [status |-> s, body |-> [user |-> ServerProfile(12)]] : s \in statuses }
UserDetailResponses == UserDetailResponsesWith(GetStatuses)

TickSteps == {1, maxage - 1}

\* PixivAppAPI.__init__ for one of the identities ids, on an empty cache at time 0
InitClient(ids) ==
    /\ now = 0
    /\ cache = << >>
    /\ \E id \in ids : username = id[1] /\ password = id[2]
    /\ user_info = None
    /\ headers = << >>
    /\ net = << >>
    /\ exc = ""
    /\ ret = None
    /\ resp = None
    /\ lastLogin = << >>
    /\ calls = 0
    /\ ticks = 0

\* no _pagination generator exists
NoPagination ==
    /\ pagState = "none"
    /\ endpoint = ""
    /\ params = << >>
    /\ data = None
    /\ idx = 0
    /\ item = None
    /\ pagesSeen = << >>
    /\ out = << >>

\* no extractor exists
NoExtractor ==
    /\ self = None
    /\ pc = "none"
    /\ metadata = None
    /\ worksIt = << >>
    /\ heap = << >>
    /\ fetched = << >>
    /\ locals = None
    /\ emitted = << >>

\* no host runs threads
NoThreads ==
    /\ serialized = TRUE
    /\ thread = << >>
    /\ tokenPosts = << >>

InitApi == InitClient(Identities) /\ log = << >> /\ NoPagination /\ NoExtractor /\ NoThreads

\* a new run for the same identity: a new extractor with its own session, logger
\* and PixivAppAPI; the cache is what the earlier runs left
NewRun ==
    /\ user_info' = None
    /\ headers' = << >>
    /\ net' = << >>
    /\ log' = << >>
    /\ exc' = ""
    /\ ret' = None
    /\ resp' = None
    /\ UNCHANGED <<serialized, thread, tokenPosts, now, cache, username, password, lastLogin, calls, ticks, pagVars,
                   itemVars>>

\* a new extractor, configured with any of the identities, on the same cache
NewRunAs ==
    /\ \E id \in Identities : username' = id[1] /\ password' = id[2]
    /\ user_info' = None
    /\ headers' = << >>
    /\ net' = << >>
    /\ log' = << >>
    /\ exc' = ""
    /\ ret' = None
    /\ resp' = None
    /\ UNCHANGED <<serialized, thread, tokenPosts, now, cache, lastLogin, calls, ticks, pagVars, itemVars>>

Tick ==
    /\ ticks < MaxTicks
    /\ \E d \in TickSteps : now' = now + d
    /\ ticks' = ticks + 1
    /\ UNCHANGED <<serialized, thread, tokenPosts, cache, username, password, user_info, headers, net, log, exc, ret, resp,
                   lastLogin, calls, pagVars, itemVars>>

\* api.login()
DoLogin ==
    /\ exc = ""
    /\ calls < MaxOps
    /\ \E tok \in TokenResponses : SetWorld(login(World, tok))
    /\ calls' = calls + 1
    /\ UNCHANGED <<serialized, thread, tokenPosts, now, username, password, ticks, pagVars, itemVars>>

\* api.user_detail(user_id)
DoCall ==
    /\ exc = ""
    /\ calls < MaxOps
    /\ \E tok \in TokenResponses, get \in UserDetailResponses :
          SetWorld(user_detail(World, 12, tok, get))
    /\ calls' = calls + 1
    /\ UNCHANGED <<serialized, thread, tokenPosts, now, username, password, ticks, pagVars, itemVars>>

NextApi == NewRun \/ Tick \/ DoLogin \/ DoCall

SpecApi == InitApi /\ [][NextApi]_vars

(* Runs of clients configured with different identities against the shared cache *)

NextIdentities == NewRunAs \/ Tick \/ DoLogin \/ DoCall

SpecIdentities == InitApi /\ [][NextIdentities]_vars

(* A host that runs extractions in threads on the shared cache. Each thread has its *)
(* own PixivAppAPI; login() is the cache decorator's read of the entry and test of  *)
(* its expiry, then the token POST, then the write of the new entry                 *)

Threads == {1, 2}

\* the world as thread t sees it: the shared cache, its own client
ThreadWorld(t) == [World EXCEPT !.user_info = thread[t].user_info,
                                !.headers = thread[t].headers]

\* the cache key of thread t's call _login_impl(self, username, password)
ThreadKey(t) == CacheKey(<<"self", thread[t].id[1], thread[t].id[2]>>)

\* login() of thread t, _login_impl having come back as r: the thread's client is
\* assigned, or the thread's run ends with the exception
ThreadReturn(t, r) ==
    [thread EXCEPT ![t].pc = IF r.exc # "" THEN "raised" ELSE "idle",
                   ![t].user_info = r.user_info,
                   ![t].headers = r.headers,
                   ![t].value = << >>]

InitHost ==
    /\ InitClient({<<"u1", "s1">>})
    /\ log = << >>
    /\ NoPagination
    /\ NoExtractor
    /\ serialized \in BOOLEAN
    /\ thread \in { f \in [Threads -> { [id |-> id, pc |-> "idle", timestamp |-> 0,
                                          value |-> << >>, user_info |-> None,
                                          headers |-> << >>] : id \in Identities }] :
                       f[1].id = <<"u1", "s1">> }
    /\ tokenPosts = << >>

\* a host that lets every thread in at once
ThreadLoginUnserialized ==
    \E t \in Threads :
        /\ thread[t].pc = "idle"
        /\ calls < MaxOps
        /\ thread' = [thread EXCEPT ![t].pc = "read"]
        /\ calls' = calls + 1
        /\ UNCHANGED <<now, cache, username, password, user_info, headers, net, log, exc,
                       ret, resp, lastLogin, ticks, serialized, tokenPosts, pagVars,
                       itemVars>>

\* a thread calls login(); a serializing host lets it in when no other thread is inside
ThreadLogin ==
    \E t \in Threads :
        /\ thread[t].pc = "idle"
        /\ calls < MaxOps
        /\ serialized => \A o \in Threads : thread[o].pc \in {"idle", "raised"}
        /\ thread' = [thread EXCEPT ![t].pc = "read"]
        /\ calls' = calls + 1
        /\ UNCHANGED <<now, cache, username, password, user_info, headers, net, log, exc,
                       ret, resp, lastLogin, ticks, serialized, tokenPosts, pagVars,
                       itemVars>>

\* the decorator reads the entry of the key: a live entry answers the call
ThreadRead ==
    \E t \in Threads :
        /\ thread[t].pc = "read"
        /\ IF CacheHit(ThreadWorld(t), ThreadKey(t), now)
           THEN thread' = ThreadReturn(t, login_assign(Return(ThreadWorld(t),
                                                              cache[ThreadKey(t)].value)))
           ELSE thread' = [thread EXCEPT ![t].pc = "post", ![t].timestamp = now]
        /\ UNCHANGED <<now, cache, username, password, user_info, headers, net, log, exc,
                       ret, resp, lastLogin, calls, ticks, serialized, tokenPosts, pagVars,
                       itemVars>>

\* the decorated call: the token POST and the test of its status
ThreadPost ==
    \E t \in Threads, tok \in TokenResponsesWith({"tokA"}) :
        \E r \in {login_impl_body(ThreadWorld(t), thread[t].id[1], thread[t].id[2], tok)} :
            /\ thread[t].pc = "post"
            /\ net' = r.net
            /\ log' = r.log
            /\ resp' = r.resp
            /\ lastLogin' = r.lastLogin
            /\ tokenPosts' = Append(tokenPosts, [id |-> thread[t].id, by |-> t,
                                                 timestamp |-> thread[t].timestamp,
                                                 ok |-> r.exc = ""])
            /\ IF r.exc # ""
               THEN thread' = ThreadReturn(t, r)
               ELSE thread' = [thread EXCEPT ![t].pc = "write", ![t].value = r.ret]
            /\ UNCHANGED <<now, cache, username, password, user_info, headers, exc, ret,
                           calls, ticks, serialized, pagVars, itemVars>>

\* the decorator writes the entry, and login() assigns what came back
ThreadWrite ==
    \E t \in Threads :
        \E r \in {CacheStore(Return(ThreadWorld(t), thread[t].value), ThreadKey(t),
                             thread[t].timestamp)} :
            /\ thread[t].pc = "write"
            /\ cache' = r.cache
            /\ thread' = ThreadReturn(t, login_assign(r))
            /\ UNCHANGED <<now, username, password, user_info, headers, net, log, exc, ret,
                           resp, lastLogin, calls, ticks, serialized, tokenPosts, pagVars,
                           itemVars>>

NextHost == Tick \/ ThreadLogin \/ ThreadRead \/ ThreadPost \/ ThreadWrite

SpecHost == InitHost /\ [][NextHost]_vars

----------------------------------------------------------------------------
(* _pagination: a generator, run by the pulls of its consumer *)

\* next-page fields a list response may carry
NextUrls == { None, Str(<< >>),
              Str(<<"?", "o", "=", "3", "0">>),
              Str(<<"?", "i", "=", "1", "&", "o", "=", "6", "0">>) }

\* list responses over the records in pool, at most n of them in a page
ListResponses(pool, n, statuses, nexts) ==
    { [status |-> st, body |-> [illusts |-> is, next_url |-> nu]] :
        st \in statuses, is \in SeqsUpTo(pool, n), nu \in nexts }

Received == Len(Flatten([i \in DOMAIN pagesSeen |-> pagesSeen[i].illusts]))

\* _pagination(endpoint, params): calling a generator function runs none of its body
_pagination(ep, ps) ==
    /\ pagState' = "new"
    /\ endpoint' = ep
    /\ params' = ps
    /\ UNCHANGED <<data, idx, item, pagesSeen, out>>

illust_ranking(mode, date) ==
    _pagination("v1/illust/ranking", [mode |-> mode, date |-> date])

user_bookmarks_illust(user_id) ==
    _pagination("v1/user/bookmarks/illust",
                [user_id |-> user_id, restrict |-> "public", tag |-> None])

user_illusts(user_id) ==
    _pagination("v1/user/illusts", [user_id |-> user_id, type |-> None])

\* a generator that asks the platform again on every pull
PagNextEager ==
    /\ pagState \in {"new", "suspended"}
    /\ pagState' = "call"
    /\ UNCHANGED <<apiVars, endpoint, params, data, idx, item, pagesSeen, out, itemVars>>

\* next(generator): the consumer starts it, or resumes it after a yield
PagNext ==
    /\ pagState \in {"new", "suspended"}
    /\ pagState' = IF pagState = "new" THEN "call" ELSE "iter"
    /\ UNCHANGED <<apiVars, endpoint, params, data, idx, item, pagesSeen, out, itemVars>>

\* data = self._call(endpoint, params); the platform answers with at most maxPages
\* pages holding at most maxItems records of pool
PagCall(pool, statuses, nexts, maxPages, maxItems) ==
    /\ pagState = "call"
    /\ Len(pagesSeen) < maxPages
    /\ \E tok \in TokenResponsesWith({"tokA"}),
          get \in ListResponses(pool, maxItems - Received, statuses, nexts) :
          \E r \in {_call(World, endpoint, params, tok, get)} :
              /\ SetWorld(r)
              /\ IF r.exc # ""
                 THEN /\ pagState' = "raised"
                      /\ UNCHANGED <<data, idx, pagesSeen>>
                 ELSE /\ pagState' = "iter"
                      /\ data' = r.ret
                      /\ idx' = 0
                      /\ pagesSeen' = Append(pagesSeen, r.ret)
    /\ calls' = calls + 1
    /\ UNCHANGED <<serialized, thread, tokenPosts, now, username, password, ticks, endpoint, params, item, out, itemVars>>

\* a generator that leaves out the last record of every page
PagIterDropLast ==
    /\ pagState = "iter"
    /\ IF idx + 1 < Len(data.illusts)
       THEN /\ item' = data.illusts[idx + 1]
            /\ idx' = idx + 1
            /\ out' = Append(out, data.illusts[idx + 1])
            /\ pagState' = "suspended"
            /\ UNCHANGED params
       ELSE IF ~Truthy(data.next_url)
       THEN /\ pagState' = "done"
            /\ UNCHANGED <<params, idx, item, out>>
       ELSE /\ params' = ("offset" :> RPartitionTail(data.next_url.str, "=")) @@ params
            /\ pagState' = "call"
            /\ UNCHANGED <<idx, item, out>>
    /\ UNCHANGED <<apiVars, endpoint, data, pagesSeen, itemVars>>

\* a generator that stops only on an absent next_url, not on an empty one
PagIterNoneOnly ==
    /\ pagState = "iter"
    /\ IF idx < Len(data.illusts)
       THEN /\ item' = data.illusts[idx + 1]
            /\ idx' = idx + 1
            /\ out' = Append(out, data.illusts[idx + 1])
            /\ pagState' = "suspended"
            /\ UNCHANGED params
       ELSE IF data.next_url = None
       THEN /\ pagState' = "done"
            /\ UNCHANGED <<params, idx, item, out>>
       ELSE /\ params' = ("offset" :> RPartitionTail(data.next_url.str, "=")) @@ params
            /\ pagState' = "call"
            /\ UNCHANGED <<idx, item, out>>
    /\ UNCHANGED <<apiVars, endpoint, data, pagesSeen, itemVars>>

\* a generator that keeps the offset it first took
PagIterStaleOffset ==
    /\ pagState = "iter"
    /\ IF idx < Len(data.illusts)
       THEN /\ item' = data.illusts[idx + 1]
            /\ idx' = idx + 1
            /\ out' = Append(out, data.illusts[idx + 1])
            /\ pagState' = "suspended"
            /\ UNCHANGED params
       ELSE IF ~Truthy(data.next_url)
       THEN /\ pagState' = "done"
            /\ UNCHANGED <<params, idx, item, out>>
       ELSE /\ params' = params @@ ("offset" :> RPartitionTail(data.next_url.str, "="))
            /\ pagState' = "call"
            /\ UNCHANGED <<idx, item, out>>
    /\ UNCHANGED <<apiVars, endpoint, data, pagesSeen, itemVars>>

\* yield from data["illusts"], then the test of data["next_url"]
PagIter ==
    /\ pagState = "iter"
    /\ IF idx < Len(data.illusts)
       THEN /\ item' = data.illusts[idx + 1]
            /\ idx' = idx + 1
            /\ out' = Append(out, data.illusts[idx + 1])
            /\ pagState' = "suspended"
            /\ UNCHANGED params
       ELSE IF ~Truthy(data.next_url)
       THEN /\ pagState' = "done"
            /\ UNCHANGED <<params, idx, item, out>>
       ELSE /\ params' = ("offset" :> RPartitionTail(data.next_url.str, "=")) @@ params
            /\ pagState' = "call"
            /\ UNCHANGED <<idx, item, out>>
    /\ UNCHANGED <<apiVars, endpoint, data, pagesSeen, itemVars>>

(* One generator drained by a consumer that may stop pulling at any time *)

Records == {[id |-> 1], [id |-> 2]}
ListStatuses == {200, 404, 500}

InitPage ==
    /\ InitClient({<<"u1", "s1">>})
    /\ log = << >>
    /\ pagState = "new"
    /\ endpoint = "v1/user/illusts"
    /\ params = [user_id |-> 11, type |-> None]
    /\ data = None
    /\ idx = 0
    /\ item = None
    /\ pagesSeen = << >>
    /\ out = << >>
    /\ NoExtractor
    /\ NoThreads

PagCallRecords == PagCall(Records, ListStatuses, NextUrls, MaxPages, MaxItems)

NextPage == PagNext \/ PagCallRecords \/ PagIter

SpecPage == InitPage /\ [][NextPage]_vars

\* the consumer drains the generator: it keeps pulling, and the generator keeps running
FairSpecPage == SpecPage /\ WF_vars(NextPage)

----------------------------------------------------------------------------
(* The extractors: construction *)

\* PixivExtractor.__init__: the attributes every variant starts with; config is the
\* configuration self.config() reads
PixivExtractor(subcategory, cfgUgoira) ==
    [subcategory |-> subcategory, config |-> [ugoira |-> cfgUgoira], user_id |-> -1,
     load_ugoira |-> cfgUgoira]

\* self.name = v
SetAttr(slf, name, v) == (name :> v) @@ slf

\* str.lower(), on the mode strings and tag names the model feeds in
Lower(m) ==
    CASE m = "DAILY" -> "daily"
      [] m = "Weekly_R18" -> "weekly_r18"
      [] m = "Bogus" -> "bogus"
      [] m = "tagA" -> "taga"
      [] m = "TagB" -> "tagb"
      [] OTHER -> m

\* text.unquote(), on the tags the model feeds in: %42 is "B"
Unquote(t) ==
    CASE t = "Tag%42" -> "TagB"
      [] OTHER -> t

\* tag is the second group of the match, "" when the URL names none
PixivUserExtractor(cfgUgoira, id, tag) ==
    LET slf == SetAttr(PixivExtractor("user", cfgUgoira), "user_id", id)
    IN  IF tag # ""
        THEN SetAttr(SetAttr(slf, "tag", Lower(Unquote(tag))), "works", "_tagged_works")
        ELSE slf

PixivMeExtractor(cfgUgoira, account) ==
    SetAttr(PixivExtractor("me", cfgUgoira), "account", account)

\* a single-work extractor that keeps the configured load_ugoira
PixivWorkExtractorConfigured(cfgUgoira, id) ==
    SetAttr(SetAttr(PixivExtractor("work", cfgUgoira), "illust_id", id), "work", None)

PixivWorkExtractor(cfgUgoira, id) ==
    SetAttr(SetAttr(SetAttr(PixivExtractor("work", cfgUgoira), "illust_id", id),
                    "load_ugoira", TRUE),
            "work", None)

PixivFavoriteExtractor(cfgUgoira, id) ==
    SetAttr(SetAttr(PixivExtractor("favorite", cfgUgoira), "user_id", id), "user", None)

\* the pattern of the own-bookmarks variant captures nothing: user_id starts as 0 here
\* and is set by get_metadata before it is read
PixivBookmarkExtractor(cfgUgoira) ==
    SetAttr(PixivFavoriteExtractor(cfgUgoira, 0), "subcategory", "bookmark")

modes ==
    [daily |-> "day", daily_r18 |-> "day_r18", weekly |-> "week",
     weekly_r18 |-> "week_r18", monthly |-> "month", male |-> "day_male",
     male_r18 |-> "day_male_r18", female |-> "day_female",
     female_r18 |-> "day_female_r18", original |-> "week_original",
     rookie |-> "week_rookie", r18g |-> "week_r18g"]

\* a test that takes any characters for decimal digits
IsDecimalAlways(cs) == TRUE

\* str.isdecimal(), on the characters the model feeds in
IsDecimal(cs) == \A i \in DOMAIN cs : \E d \in DOMAIN DigitChars : cs[i] = DigitChars[d]

\* (datetime.utcnow() - timedelta(days=1)).strftime("%Y-%m-%d") during the first day
\* of the epoch, which the model's clock never leaves
UtcYesterday(t) == <<"1", "9", "6", "9", "-", "1", "2", "-", "3", "1">>

\* a constructor that puts the endpoint's mode into ranking_info
PixivRankingExtractorMapped(cfgUgoira, query) ==
    LET given == Lower(IF "mode" \in DOMAIN query THEN query.mode ELSE "daily")
        badMode == given \notin DOMAIN modes
        mode == IF badMode THEN "daily" ELSE given
        date0 == IF "date" \in DOMAIN query THEN query.date ELSE << >>
        badDate == date0 # << >> /\ ~(Len(date0) = 8 /\ IsDecimal(date0))
        date1 == IF date0 # << >> /\ ~badDate
                 THEN SubSeq(date0, 1, 4) \o <<"-">> \o SubSeq(date0, 5, 6) \o <<"-">>
                      \o SubSeq(date0, 7, 8)
                 ELSE << >>
        date == IF date1 = << >> THEN UtcYesterday(now) ELSE date1
    IN  [self |-> SetAttr(SetAttr(SetAttr(SetAttr(PixivExtractor("ranking", cfgUgoira),
                                                  "match", query),
                                          "mode", modes[mode]),
                                  "date", date),
                          "ranking_info", [mode |-> modes[mode], date |-> date]),
         log |-> (IF badMode THEN << <<"warning", "invalid mode", given>> >> ELSE << >>)
                 \o (IF badDate THEN << <<"warning", "invalid date", date0>> >> ELSE << >>)]

\* PixivRankingExtractor.__init__ on the parsed query: the attributes and the warnings;
\* match is the query the extractor was built from, which the code does not keep
PixivRankingExtractor(cfgUgoira, query) ==
    LET given == Lower(IF "mode" \in DOMAIN query THEN query.mode ELSE "daily")
        badMode == given \notin DOMAIN modes
        mode == IF badMode THEN "daily" ELSE given
        date0 == IF "date" \in DOMAIN query THEN query.date ELSE << >>
        badDate == date0 # << >> /\ ~(Len(date0) = 8 /\ IsDecimal(date0))
        date1 == IF date0 # << >> /\ ~badDate
                 THEN SubSeq(date0, 1, 4) \o <<"-">> \o SubSeq(date0, 5, 6) \o <<"-">>
                      \o SubSeq(date0, 7, 8)
                 ELSE << >>
        date == IF date1 = << >> THEN UtcYesterday(now) ELSE date1
    IN  [self |-> SetAttr(SetAttr(SetAttr(SetAttr(PixivExtractor("ranking", cfgUgoira),
                                                  "match", query),
                                          "mode", modes[mode]),
                                  "date", date),
                          "ranking_info", [mode |-> mode, date |-> date]),
         log |-> (IF badMode THEN << <<"warning", "invalid mode", given>> >> ELSE << >>)
                 \o (IF badDate THEN << <<"warning", "invalid date", date0>> >> ELSE << >>)]

----------------------------------------------------------------------------
(* The extractors: get_metadata() and works() *)

\* Python truthiness of a dict or None
DictTruthy(d) == d # None /\ DOMAIN d # {}

\* the call r has come back: {key: value} of what it returned
Dict(r, key) == IF r.exc # "" THEN r ELSE Return(r, (key :> r.ret))

\* a get_metadata that asks for the profile whatever it is given
PixivExtractor_get_metadata_asking(w, slf, user, tok, get) ==
    [w |-> Dict(user_detail(w, slf.user_id, tok, get), "user"), self |-> slf]

\* PixivExtractor.get_metadata(self, user): [w, self] after the call
PixivExtractor_get_metadata(w, slf, user, tok, get) ==
    IF ~DictTruthy(user)
    THEN [w |-> Dict(user_detail(w, slf.user_id, tok, get), "user"), self |-> slf]
    ELSE [w |-> Return(w, [user |-> user]), self |-> slf]

\* PixivWorkExtractor.get_metadata, illust_detail having come back as r
PixivWorkExtractor_set_work(r, slf, tok, get2) ==
    IF r.exc # ""
    THEN [w |-> r, self |-> slf]
    ELSE PixivExtractor_get_metadata(r, [slf EXCEPT !.work = r.ret], r.ret.user, tok, get2)

\* PixivWorkExtractor.get_metadata
PixivWorkExtractor_get_metadata(w, slf, tok, get, get2) ==
    PixivWorkExtractor_set_work(illust_detail(w, slf.illust_id, tok, get), slf, tok, get2)

\* PixivFavoriteExtractor.get_metadata, user_detail having come back as r
PixivFavoriteExtractor_set_user(r, slf) ==
    IF r.exc # ""
    THEN [w |-> r, self |-> slf]
    ELSE [w |-> Return(r, [user_bookmark |-> r.ret]), self |-> [slf EXCEPT !.user = r.ret]]

\* PixivFavoriteExtractor.get_metadata(self, user)
PixivFavoriteExtractor_get_metadata(w, slf, user, tok, get) ==
    IF DictTruthy(user)
    THEN [w |-> Return(w, [user_bookmark |-> user]), self |-> [slf EXCEPT !.user = user]]
    ELSE PixivFavoriteExtractor_set_user(user_detail(w, slf.user_id, tok, get), slf)

\* PixivBookmarkExtractor.get_metadata, login having come back as r
PixivBookmarkExtractor_set_user_id(r, slf, tok, get) ==
    IF r.exc # ""
    THEN [w |-> r, self |-> slf]
    ELSE PixivFavoriteExtractor_get_metadata(r, [slf EXCEPT !.user_id = r.user_info.id],
                                             r.user_info, tok, get)

\* PixivBookmarkExtractor.get_metadata
PixivBookmarkExtractor_get_metadata(w, slf, tok, get) ==
    PixivBookmarkExtractor_set_user_id(login(w, tok), slf, tok, get)

\* PixivRankingExtractor.get_metadata
PixivRankingExtractor_get_metadata(w, slf) ==
    [w |-> Return(w, [ranking |-> slf.ranking_info]), self |-> slf]

\* self.get_metadata(), by variant; gU answers user/detail, gI answers illust/detail
get_metadata(w, slf, tok, gU, gI) ==
    CASE slf.subcategory = "user" -> PixivExtractor_get_metadata(w, slf, None, tok, gU)
      [] slf.subcategory = "work" -> PixivWorkExtractor_get_metadata(w, slf, tok, gI, gU)
      [] slf.subcategory = "favorite" ->
             PixivFavoriteExtractor_get_metadata(w, slf, None, tok, gU)
      [] slf.subcategory = "bookmark" -> PixivBookmarkExtractor_get_metadata(w, slf, tok, gU)
      [] slf.subcategory = "ranking" -> PixivRankingExtractor_get_metadata(w, slf)

\* self.works(), by variant: a tuple for a single work, a generator otherwise
works ==
    CASE self.subcategory = "user" ->
             user_illusts(self.user_id) /\ worksIt' = << >>
      [] self.subcategory \in {"favorite", "bookmark"} ->
             user_bookmarks_illust(self.user_id) /\ worksIt' = << >>
      [] self.subcategory = "ranking" ->
             illust_ranking(self.mode, self.date) /\ worksIt' = << >>
      [] self.subcategory = "work" ->
             worksIt' = <<self.work>> /\ UNCHANGED pagVars

----------------------------------------------------------------------------
(* PixivExtractor.items(): a generator, each action one stretch of its body *)

ApiStatuses == {200, 404, 500}
Zip == <<"z", "i", "p">>
Txt == <<"t", "x", "t">>

IllustDetailResponses(pool) ==
    { [status |-> st, body |-> [illust |-> wk]] : st \in ApiStatuses, wk \in pool }

UgoiraResponses(id) ==
    { [status |-> st, body |-> [ugoira_metadata |-> ServerUgoira(id)]] : st \in ApiStatuses }

Version == [type |-> "Version", arg |-> 1]
Directory(meta) == [type |-> "Directory", meta |-> meta]
\* a Url message: the URL, the work dict as it is at the yield, and which dict it is
Url(url, work, ref) == [type |-> "Url", url |-> url, meta |-> work, ref |-> ref]
Queue(url) == [type |-> "Queue", url |-> url, meta |-> EmptyDict]

NoLocals == [meta_single_page |-> None, meta_pages |-> << >>, num |-> 0, ugoira |-> None]

\* lines 31-33: get_metadata(), then the Version message
ItemsStart(pool) ==
    /\ pc = "start"
    /\ self.subcategory # "me"
    /\ \E tok \in TokenResponsesWith({"tokA"}),
          gU \in UserDetailResponsesWith(ApiStatuses),
          gI \in IllustDetailResponses(pool) :
          \E r \in {get_metadata(World, self, tok, gU, gI)} :
              /\ SetWorld(r.w)
              /\ self' = r.self
              /\ IF r.w.exc # ""
                 THEN /\ pc' = "raised"
                      /\ UNCHANGED <<metadata, emitted>>
                 ELSE /\ pc' = "version"
                      /\ metadata' = r.w.ret
                      /\ emitted' = Append(emitted, Version)
    /\ calls' = IF self.subcategory = "ranking" THEN calls ELSE calls + 1
    /\ UNCHANGED <<serialized, thread, tokenPosts, now, username, password, ticks, pagVars, worksIt, heap, fetched, locals>>

\* an items() that goes on to the works without the Directory message
ItemsDirectoryOmitted ==
    /\ pc = "version"
    /\ self.subcategory # "me"
    /\ pc' = "directory"
    /\ UNCHANGED <<apiVars, pagVars, self, metadata, worksIt, heap, fetched, locals, emitted>>

\* line 34: the Directory message
ItemsDirectory ==
    /\ pc = "version"
    /\ self.subcategory # "me"
    /\ emitted' = Append(emitted, Directory(metadata))
    /\ pc' = "directory"
    /\ UNCHANGED <<apiVars, pagVars, self, metadata, worksIt, heap, fetched, locals>>

\* line 36: self.works() is evaluated when the generator is resumed after Directory
ItemsWorks ==
    /\ pc = "directory"
    /\ works
    /\ pc' = "for"
    /\ UNCHANGED <<apiVars, self, metadata, heap, fetched, locals, emitted>>

\* line 36: the for statement asks its iterator for the next work
ItemsFor ==
    /\ pc = "for"
    /\ IF self.subcategory = "work"
       THEN /\ IF worksIt = << >>
               THEN /\ pc' = "done"
                    /\ UNCHANGED <<worksIt, heap, fetched>>
               ELSE /\ pc' = "body"
                    /\ heap' = Append(heap, Head(worksIt))
                    /\ fetched' = Append(fetched, Head(worksIt))
                    /\ worksIt' = Tail(worksIt)
            /\ UNCHANGED pagVars
       ELSE /\ pagState \in {"new", "suspended"}
            /\ pagState' = IF pagState = "new" THEN "call" ELSE "iter"
            /\ pc' = "wait"
            /\ UNCHANGED <<endpoint, params, data, idx, item, pagesSeen, out,
                           worksIt, heap, fetched>>
    /\ UNCHANGED <<apiVars, self, metadata, locals, emitted>>

\* _tagged_works: the test a work of user_illusts has to pass to be yielded
_tagged_works(slf, work) ==
    slf.tag \in { Lower(work.tags[i].name) : i \in DOMAIN work.tags }

\* line 36: the generator of works() has yielded a work, has ended, or has raised; a
\* work that _tagged_works does not yield makes it pull the next one
ItemsTake ==
    /\ pc = "wait"
    /\ pagState \in {"suspended", "done", "raised"}
    /\ IF pagState = "suspended"
       THEN IF "works" \in DOMAIN self /\ ~_tagged_works(self, item)
            THEN /\ pagState' = "iter"
                 /\ UNCHANGED <<pc, heap, fetched>>
            ELSE /\ pc' = "body"
                 /\ heap' = Append(heap, item)
                 /\ fetched' = Append(fetched, item)
                 /\ UNCHANGED pagState
       ELSE /\ pc' = pagState
            /\ UNCHANGED <<heap, fetched, pagState>>
    /\ UNCHANGED <<apiVars, endpoint, params, data, idx, item, pagesSeen, out, self, metadata,
                   worksIt, locals, emitted>>

\* a loop that never skips a work
SkipNever(work) == FALSE

\* lines 37-38: not work["user"]["id"]
Skip(work) == work.user.id = 0

\* a preparation that lays the work's fields over the metadata
PrepareWorkOverMetadata(work, meta) ==
    LET w1 == DictDel(work, {"meta_single_page", "image_urls", "meta_pages"})
        w2 == DictSet(w1, "num", << >>)
        w3 == DictSet(w2, "tags", [i \in DOMAIN work.tags |-> work.tags[i].name])
    IN  DictUpdate(meta, w3)

\* lines 40-47: the work dict is rewritten in place and the metadata laid over it
Prepare(work, meta) ==
    LET w1 == DictDel(work, {"meta_single_page", "image_urls", "meta_pages"})
        w2 == DictSet(w1, "num", << >>)
        w3 == DictSet(w2, "tags", [i \in DOMAIN work.tags |-> work.tags[i].name])
    IN  DictUpdate(w3, meta)

\* "_p{}".format(num): no padding
NumSuffixUnpadded(num) == <<"_", "p">> \o Decimal(num)

\* "_p{:02}".format(num)
NumSuffix(num) == <<"_", "p">> \o ZeroPad(num, 2)

\* lines 73-76: the Url message of page num (from 0) of a multi-image work
PageMessage(work, pages, num, ref) ==
    LET url == pages[num + 1].image_urls.original
        w1 == DictSet(work, "num", NumSuffix(num))
        w2 == DictSet(w1, "extension", RPartitionTail(url, "."))
    IN  Url(url, w2, ref)

SetLast(h, work) == [h EXCEPT ![Len(h)] = work]

\* lines 37-76 for the work just pulled, up to its first yield or to the next work
ItemsBody ==
    /\ pc = "body"
    /\ LET raw == heap[Len(heap)]
           ref == Len(heap)
           work == Prepare(raw, metadata)
       IN  IF Skip(raw)
           THEN /\ pc' = "for"
                /\ UNCHANGED <<apiVars, heap, locals, emitted>>
           ELSE IF work.type = "ugoira"
           THEN IF ~self.load_ugoira
                THEN /\ pc' = "for"
                     /\ heap' = SetLast(heap, work)
                     /\ locals' = [NoLocals EXCEPT !.meta_single_page = raw.meta_single_page,
                                                   !.meta_pages = raw.meta_pages]
                     /\ UNCHANGED <<apiVars, emitted>>
                ELSE \E tok \in TokenResponsesWith({"tokA"}), get \in UgoiraResponses(work.id) :
                     \E r \in {ugoira_metadata(World, work.id, tok, get)} :
                       LET url == Replace(r.ret.zip_urls.medium, "_ugoira600x600",
                                          "_ugoira1920x1080")
                           w1 == DictSet(work, "extension", Zip)
                       IN  /\ SetWorld(r)
                           /\ calls' = calls + 1
                           /\ UNCHANGED <<serialized, thread, tokenPosts, now, username, password, ticks>>
                           /\ IF r.exc # ""
                              THEN /\ pc' = "raised"
                                   /\ heap' = SetLast(heap, work)
                                   /\ locals' = [NoLocals EXCEPT
                                                   !.meta_single_page = raw.meta_single_page,
                                                   !.meta_pages = raw.meta_pages]
                                   /\ UNCHANGED emitted
                              ELSE /\ pc' = "zip"
                                   /\ heap' = SetLast(heap, w1)
                                   /\ locals' = [NoLocals EXCEPT
                                                   !.meta_single_page = raw.meta_single_page,
                                                   !.meta_pages = raw.meta_pages,
                                                   !.ugoira = r.ret]
                                   /\ emitted' = Append(emitted, Url(url, w1, ref))
           ELSE IF work.page_count = 1
           THEN LET url == raw.meta_single_page.original_image_url
                    w1 == DictSet(work, "extension", RPartitionTail(url, "."))
                IN  /\ pc' = "for"
                    /\ heap' = SetLast(heap, w1)
                    /\ locals' = [NoLocals EXCEPT !.meta_single_page = raw.meta_single_page,
                                                  !.meta_pages = raw.meta_pages]
                    /\ emitted' = Append(emitted, Url(url, w1, ref))
                    /\ UNCHANGED apiVars
           ELSE IF raw.meta_pages = << >>
           THEN /\ pc' = "for"
                /\ heap' = SetLast(heap, work)
                /\ locals' = [NoLocals EXCEPT !.meta_single_page = raw.meta_single_page]
                /\ UNCHANGED <<apiVars, emitted>>
           ELSE LET m == PageMessage(work, raw.meta_pages, 0, ref)
                IN  /\ pc' = "page"
                    /\ heap' = SetLast(heap, m.meta)
                    /\ locals' = [NoLocals EXCEPT !.meta_single_page = raw.meta_single_page,
                                                  !.meta_pages = raw.meta_pages]
                    /\ emitted' = Append(emitted, m)
                    /\ UNCHANGED apiVars
    /\ UNCHANGED <<pagVars, self, metadata, worksIt, fetched>>

\* lines 59-64: the frame list of an animation, yielded as a text: URL
ItemsUgoiraTxt ==
    /\ pc = "zip"
    /\ LET frames == locals.ugoira.frames
           framelist == Flatten([i \in DOMAIN frames |->
                                   <<frames[i].file, " ", frames[i].delay, "\n">>])
           w1 == DictSet(heap[Len(heap)], "extension", Txt)
       IN  /\ heap' = SetLast(heap, w1)
           /\ emitted' = Append(emitted, Url(<<"text:">> \o framelist, w1, Len(heap)))
    /\ pc' = "for"
    /\ UNCHANGED <<apiVars, pagVars, self, metadata, worksIt, fetched, locals>>

\* lines 72-76: the next page of a multi-image work, or the end of its pages
ItemsPage ==
    /\ pc = "page"
    /\ IF locals.num + 1 < Len(locals.meta_pages)
       THEN LET m == PageMessage(heap[Len(heap)], locals.meta_pages, locals.num + 1,
                                 Len(heap))
            IN  /\ heap' = SetLast(heap, m.meta)
                /\ locals' = [locals EXCEPT !.num = locals.num + 1]
                /\ emitted' = Append(emitted, m)
                /\ pc' = "page"
       ELSE /\ pc' = "for"
            /\ UNCHANGED <<heap, locals, emitted>>
    /\ UNCHANGED <<apiVars, pagVars, self, metadata, worksIt, fetched>>

----------------------------------------------------------------------------
(* PixivMeExtractor.items() *)

\* what pixiv.me answers to a HEAD: a redirect to the profile, or 404
HeadResponses ==
    { [status |-> 301, headers |-> [Location |-> "https://www.pixiv.net/member.php?id=12"]],
      [status |-> 302, headers |-> [Location |-> "https://www.pixiv.net/member.php?id=13"]],
      [status |-> 404, headers |-> EmptyDict] }

\* an items() that yields the Version message before it looks at the status
MeHeadVersionFirst ==
    /\ pc = "start"
    /\ self.subcategory = "me"
    /\ \E head \in HeadResponses :
          LET w == Send(World, [method |-> "HEAD", url |-> <<"https://pixiv.me/", self.account>>],
                        head)
          IN  /\ emitted' = Append(emitted, Version)
              /\ IF head.status = 404
                 THEN /\ SetWorld(Raise(w, "NotFoundError(user)"))
                      /\ pc' = "raised"
                 ELSE /\ SetWorld(w)
                      /\ pc' = "version"
    /\ UNCHANGED <<serialized, thread, tokenPosts, now, username, password, calls, ticks, pagVars, self, metadata, worksIt,
                   heap, fetched, locals>>

\* lines 147-150: the HEAD request, then the Version message
MeHead ==
    /\ pc = "start"
    /\ self.subcategory = "me"
    /\ \E head \in HeadResponses :
          LET w == Send(World, [method |-> "HEAD", url |-> <<"https://pixiv.me/", self.account>>],
                        head)
          IN  IF head.status = 404
              THEN /\ SetWorld(Raise(w, "NotFoundError(user)"))
                   /\ pc' = "raised"
                   /\ UNCHANGED emitted
              ELSE /\ SetWorld(w)
                   /\ pc' = "version"
                   /\ emitted' = Append(emitted, Version)
    /\ UNCHANGED <<serialized, thread, tokenPosts, now, username, password, calls, ticks, pagVars, self, metadata, worksIt,
                   heap, fetched, locals>>

\* line 151: the Queue message, after which the generator ends
MeQueue ==
    /\ pc = "version"
    /\ self.subcategory = "me"
    /\ emitted' = Append(emitted, Queue(resp.headers["Location"]))
    /\ pc' = "done"
    /\ UNCHANGED <<apiVars, pagVars, self, metadata, worksIt, heap, fetched, locals>>

----------------------------------------------------------------------------
(* Extraction runs *)

\* the works of the platform: a single image, a two-page work, an animation, and an
\* animation whose owner has the id 0
Works ==
    { RawWork(1, 12, "illust", 1, Png, <<"tagA", "TagB">>),
      RawWork(2, 12, "manga", 2, Jpg, <<"tagA">>),
      RawWork(3, 12, "ugoira", 1, Jpg, <<"TagB">>),
      RawWork(4, 0, "ugoira", 1, Jpg, <<"tagA", "TagB">>) }

ItemNextUrls == { None, Str(<<"?", "o", "=", "3", "0">>) }

RankingQuery == [mode |-> "weekly_r18", date |-> <<"2", "0", "1", "7", "0", "8", "1", "8">>]

\* the extractor the router has built for a matched URL, with the warnings it logged
Extractors(cfgUgoira) ==
    { [self |-> e, log |-> << >>] :
        e \in { PixivUserExtractor(cfgUgoira, 12, ""),
                PixivUserExtractor(cfgUgoira, 12, "Tag%42"),
                PixivMeExtractor(cfgUgoira, "del_shannon"),
                PixivWorkExtractor(cfgUgoira, 3), PixivFavoriteExtractor(cfgUgoira, 12),
                PixivBookmarkExtractor(cfgUgoira) } }
    \cup { PixivRankingExtractor(cfgUgoira, RankingQuery) }

\* items() has been called on a new extractor: none of its body has run
InitRun(extractors) ==
    /\ InitClient({<<"u1", "s1">>})
    /\ NoPagination
    /\ NoThreads
    /\ \E e \in extractors : self = e.self /\ log = e.log
    /\ pc = "start"
    /\ metadata = None
    /\ worksIt = << >>
    /\ heap = << >>
    /\ fetched = << >>
    /\ locals = None
    /\ emitted = << >>

InitItems == InitRun(Extractors(TRUE) \cup Extractors(FALSE))

ItemsStartWorks == ItemsStart(Works)
PagCallWorks == PagCall(Works, ApiStatuses, ItemNextUrls, MaxLists, MaxWorks)

NextItems ==
    \/ ItemsStartWorks \/ ItemsDirectory \/ ItemsWorks \/ ItemsFor \/ ItemsTake
    \/ PagCallWorks \/ PagIter \/ ItemsBody \/ ItemsUgoiraTxt \/ ItemsPage
    \/ MeHead \/ MeQueue

SpecItems == InitItems /\ [][NextItems]_vars

(* Runs of the ranking variant on the queries a URL can carry *)

RankingModes == {"daily", "weekly_r18", "Weekly_R18", "r18g", "bogus", "Bogus"}

RankingDates ==
    { <<"2", "0", "1", "7", "0", "8", "1", "8">>,
      <<"2", "0", "1", "7", "-", "0", "8", "-", "1", "8">>,
      <<"2", "0", "1", "7", "0", "8", "1">>,
      <<"2", "0", "1", "7", "0", "8", "1", "x">>,
      <<"2", "0", "1", "7", "0", "8", "1", "8", "0">> }

\* text.parse_query(match.group(1)): mode and date, each present or absent
RankingQueries ==
    { [mode |-> m, date |-> d] : m \in RankingModes, d \in RankingDates }
    \cup { [mode |-> m] : m \in RankingModes }
    \cup { [date |-> d] : d \in RankingDates }
    \cup { EmptyDict }

InitRanking == InitRun({ PixivRankingExtractor(TRUE, q) : q \in RankingQueries })

NextRanking ==
    \/ ItemsStartWorks \/ ItemsDirectory \/ ItemsWorks \/ ItemsFor \/ ItemsTake
    \/ PagCallWorks \/ PagIter \/ ItemsBody \/ ItemsUgoiraTxt \/ ItemsPage

SpecRanking == InitRanking /\ [][NextRanking]_vars

(* Runs of the user variant that last long enough for the cached login to expire *)

InitExpiry == InitRun({ [self |-> PixivUserExtractor(TRUE, 12, ""), log |-> << >>] })

\* the works of the user: a two-page work and an animation
ExpiryWorks ==
    { RawWork(2, 12, "manga", 2, Jpg, <<"tagA">>),
      RawWork(3, 12, "ugoira", 1, Jpg, <<"TagB">>) }

ItemsStartExpiry == ItemsStart(ExpiryWorks)
PagCallExpiry == PagCall(ExpiryWorks, ApiStatuses, ItemNextUrls, MaxLists, MaxWorks)

NextExpiry ==
    \/ Tick
    \/ ItemsStartExpiry \/ ItemsDirectory \/ ItemsWorks \/ ItemsFor \/ ItemsTake
    \/ PagCallExpiry \/ PagIter \/ ItemsBody \/ ItemsUgoiraTxt \/ ItemsPage

SpecExpiry == InitExpiry /\ [][NextExpiry]_vars

(* Runs of the single-work variant on works of up to MaxPageCount pages *)

LongWorks ==
    { RawWork(5, 12, "manga", k, Png, <<"tagA">>) : k \in 2..MaxPageCount }
    \cup { RawWork(1, 12, "illust", 1, Png, <<"tagA", "TagB">>),
           RawWork(3, 12, "ugoira", 1, Jpg, <<"TagB">>) }

InitWork ==
    InitRun({ [self |-> PixivWorkExtractor(c, 5), log |-> << >>] : c \in BOOLEAN })

ItemsStartLong == ItemsStart(LongWorks)

NextWork ==
    \/ ItemsStartLong \/ ItemsDirectory \/ ItemsWorks \/ ItemsFor \/ ItemsBody
    \/ ItemsUgoiraTxt \/ ItemsPage

SpecWork == InitWork /\ [][NextWork]_vars

----------------------------------------------------------------------------
(* Observations used by the properties *)

Posts(n) == Cardinality({i \in DOMAIN n : n[i].method = "POST"})
Gets(n) == Cardinality({i \in DOMAIN n : n[i].method = "GET"})
Errors(l) == Cardinality({i \in DOMAIN l : l[i][1] = "error"})
Me == <<username, password>>

----------------------------------------------------------------------------
(* Properties *)

\* C1: for a fixed identity, a login()/_call() made less than 3590 seconds after the
\* identity's last successful token POST (in this run or an earlier run on the same
\* cache) sends no token POST and leaves the client with the profile and bearer
\* token that POST returned; a call made when no such login exists, or 3590 seconds
\* or more after it, sends exactly one token POST.
C1_LoginWithinTTL ==
    [][ calls' = calls + 1 =>
          IF Me \in DOMAIN lastLogin /\ now < lastLogin[Me].at + 3590
          THEN /\ Posts(net') = Posts(net)
               /\ user_info' = lastLogin[Me].value[1]
               /\ headers' = [Authorization |-> lastLogin[Me].value[2]]
          ELSE Posts(net') = Posts(net) + 1 ]_vars

\* a later run, 3589 seconds after the token POST, is logged in without any request
C1_Witness ==
    /\ Me \in DOMAIN lastLogin
    /\ now = lastLogin[Me].at + 3589
    /\ net = << >>
    /\ calls >= 2
    /\ user_info = lastLogin[Me].value[1]
    /\ headers = [Authorization |-> lastLogin[Me].value[2]]

\* C2: a _call whose login succeeds sends exactly one GET, and the status of that one
\* response decides the outcome: 200..399 returns the parsed body, 404 raises
\* NotFoundError (nothing logged as an error), any other status logs the body as an
\* error and raises StopExtraction; no step sends a second GET.
C2_CallOutcome ==
    [][ /\ Gets(net') <= Gets(net) + 1
        /\ (DoCall /\ exc' # "AuthenticationError" => Gets(net') = Gets(net) + 1)
        /\ (Gets(net') = Gets(net) + 1 =>
              IF 200 <= resp'.status /\ resp'.status < 400
              THEN exc' = "" /\ ret' = resp'.body.user /\ Errors(log') = Errors(log)
              ELSE IF resp'.status = 404
              THEN exc' = "NotFoundError" /\ Errors(log') = Errors(log)
              ELSE /\ exc' = "StopExtraction"
                   /\ Errors(log') = Errors(log) + 1
                   /\ log'[Len(log')] = <<"error", "API request failed", resp'.body>>) ]_vars

\* a status outside 200..399 other than 404 ended the run after its single GET
C2_Witness ==
    /\ exc = "StopExtraction"
    /\ Gets(net) = 1
    /\ resp.status = 500
    /\ log[Len(log)] = <<"error", "API request failed", resp.body>>

\* C3: what _pagination has yielded is, at every moment, the records of the pages
\* received before the current one, page after page, followed by the first idx
\* records of the current page, each page in its own order; when the generator
\* ends it has yielded every record of every page.
C3_PaginationOrder ==
    /\ pagesSeen = << >> => out = << >>
    /\ pagesSeen # << >> =>
          /\ out = Flatten([i \in 1..(Len(pagesSeen) - 1) |-> pagesSeen[i].illusts])
                       \o SubSeq(pagesSeen[Len(pagesSeen)].illusts, 1, idx)
          /\ data = pagesSeen[Len(pagesSeen)]
    /\ pagState = "done" => out = Flatten([i \in DOMAIN pagesSeen |-> pagesSeen[i].illusts])

\* two pages, the first holding two different records, were yielded in order
C3_Witness ==
    /\ pagState = "done"
    /\ Len(pagesSeen) = 2
    /\ pagesSeen[1].illusts = <<[id |-> 2], [id |-> 1]>>
    /\ pagesSeen[2].illusts = <<[id |-> 1]>>
    /\ out = <<[id |-> 2], [id |-> 1], [id |-> 1]>>

LastPage == pagesSeen[Len(pagesSeen)]

\* C4: a drained _pagination whose calls succeed ends exactly when a response carries
\* an empty or absent next_url: it has ended only after such a page and all of its
\* records, no request follows the first such page (every earlier page carried a
\* non-empty next_url), and once such a page is received the generator does end.
C4_Termination ==
    /\ [](pagState = "done" =>
            /\ pagesSeen # << >>
            /\ ~Truthy(LastPage.next_url)
            /\ idx = Len(LastPage.illusts)
            /\ Gets(net) = Len(pagesSeen))
    /\ [](\A i \in 1..(Len(pagesSeen) - 1) : Truthy(pagesSeen[i].next_url))
    /\ ((pagesSeen # << >> /\ ~Truthy(LastPage.next_url)) ~> pagState = "done")

\* the generator ended after a second page whose next_url is the empty string
C4_Witness ==
    /\ pagState = "done"
    /\ Len(pagesSeen) = 2
    /\ LastPage.next_url = Str(<< >>)
    /\ Len(LastPage.illusts) = 2
    /\ Gets(net) = 2

----------------------------------------------------------------------------
(* Observations on the emitted messages *)

\* the Url messages emitted for the work pulled as number ref
UrlsOf(ref) == SelectSeq(emitted, LAMBDA m : m.type = "Url" /\ m.ref = ref)

\* the work pulled as number ref has been resolved to its end
Resolved(ref) == ref < Len(heap) \/ pc \in {"for", "wait", "done"}

\* the loop body has started on the work pulled as number ref
Started(ref) == ref < Len(heap) \/ pc # "body"

DigitValue(c) == CHOOSE d \in 0..9 : DigitChars[d + 1] = c

RECURSIVE DigitsValue(_)
DigitsValue(ds) ==
    IF ds = << >> THEN 0
    ELSE 10 * DigitsValue(SubSeq(ds, 1, Len(ds) - 1)) + DigitValue(ds[Len(ds)])

\* s is "_p" and the decimal digits of n, with a zero in front only to reach two digits
IsPageSuffix(s, n) ==
    /\ Len(s) >= 4
    /\ s[1] = "_" /\ s[2] = "p"
    /\ LET ds == SubSeq(s, 3, Len(s))
       IN  /\ \A i \in DOMAIN ds : \E d \in DOMAIN DigitChars : ds[i] = DigitChars[d]
           /\ DigitsValue(ds) = n
           /\ Len(ds) > 2 => ds[1] # "0"

\* ext is what follows the last dot of url
IsExtensionOf(ext, url) ==
    \E i \in DOMAIN url :
        /\ url[i] = "."
        /\ ext = SubSeq(url, i + 1, Len(url))
        /\ \A j \in DOMAIN ext : ext[j] # "."

UgoiraFetches ==
    Cardinality({i \in DOMAIN net :
                   net[i].method = "GET" /\ net[i].url = "v1/ugoira/metadata"})

\* animation loading as the variant and the configuration decide it
LoadingEnabled == self.subcategory = "work" \/ self.config.ugoira

Animations ==
    {ref \in DOMAIN fetched : fetched[ref].type = "ugoira" /\ fetched[ref].user.id # 0}

Deleted == {"meta_single_page", "image_urls", "meta_pages"}

\* the extension and the suffix of the Url message m of the fetched work f are the
\* resolver's
ResolverFields(m, f) ==
    IF f.type = "ugoira"
    THEN m.meta.num = << >> /\ m.meta.extension \in {Zip, Txt}
    ELSE /\ IsExtensionOf(m.meta.extension, m.url)
         /\ IF f.page_count = 1
            THEN m.meta.num = << >>
            ELSE \E n \in 0..(f.page_count - 1) : IsPageSuffix(m.meta.num, n)

----------------------------------------------------------------------------
(* C5 *)

\* C5: a multi-image work of k > 1 pages yields one Url message per page, in page
\* order, the i-th (from 0) with the URL of page i and the suffix "_p" followed by i in
\* decimal, padded with a zero to two digits and never cut (k > 100 gives three
\* digits); resolved to its end it has yielded exactly k of them.
C5_PageSuffixes ==
    \A ref \in DOMAIN fetched :
        LET f == fetched[ref]
            us == UrlsOf(ref)
        IN  (f.type # "ugoira" /\ f.page_count > 1 /\ f.user.id # 0) =>
                /\ Len(us) <= f.page_count
                /\ \A i \in DOMAIN us :
                       /\ us[i].url = f.meta_pages[i].image_urls.original
                       /\ IsPageSuffix(us[i].meta.num, i - 1)
                /\ Resolved(ref) => Len(us) = f.page_count

C5_Witness ==
    /\ pc = "done"
    /\ fetched # << >>
    /\ fetched[1].page_count = 101
    /\ Len(UrlsOf(1)) = 101
    /\ UrlsOf(1)[1].meta.num = <<"_", "p", "0", "0">>
    /\ UrlsOf(1)[10].meta.num = <<"_", "p", "0", "9">>
    /\ UrlsOf(1)[101].meta.num = <<"_", "p", "1", "0", "0">>

----------------------------------------------------------------------------
(* C6 *)

\* C6: for an animation whose owner id is not zero: with loading enabled, one
\* ugoira/metadata request is made when the loop body starts on it and, the request
\* answered, it yields exactly two Url messages, the archive (extension zip, suffix
\* empty) and then the text: frame list (extension txt, suffix empty); with loading
\* disabled it yields none and no such request is made. Loading is enabled in the
\* single-work variant whatever the configuration, and as configured elsewhere.
C6_Animations ==
    /\ UgoiraFetches = IF LoadingEnabled
                       THEN Cardinality({ref \in Animations : Started(ref)})
                       ELSE 0
    /\ \A ref \in Animations :
           LET us == UrlsOf(ref)
               zip == <<"https://i.x/zip/", Decimal(fetched[ref].id), "_ugoira1920x1080",
                        ".zip">>
           IN  IF LoadingEnabled
               THEN /\ Len(us) <= 2
                    /\ Len(us) >= 1 => /\ us[1].url = zip
                                       /\ us[1].meta.extension = Zip
                                       /\ us[1].meta.num = << >>
                    /\ Len(us) = 2 => /\ Head(us[2].url) = "text:"
                                      /\ us[2].meta.extension = Txt
                                      /\ us[2].meta.num = << >>
                    /\ Resolved(ref) => Len(us) = 2
               ELSE us = << >>

C6_Witness ==
    /\ self.subcategory = "work"
    /\ ~self.config.ugoira
    /\ pc = "done"
    /\ Animations = {1}
    /\ UgoiraFetches = 1
    /\ Len(UrlsOf(1)) = 2
    /\ UrlsOf(1)[1].meta.extension = Zip
    /\ UrlsOf(1)[2].meta.extension = Txt
    /\ emitted[Len(emitted)] = UrlsOf(1)[2]

----------------------------------------------------------------------------
(* C7 *)

\* C7 as stated: in every Url message the record is the context, overlaid by the
\* work's fields (tags flattened to names), overlaid by the resolver's extension and
\* suffix: where the context and the work share a key the work's value stands.
C7_WorkOverContext ==
    \A i \in DOMAIN emitted :
        emitted[i].type = "Url" =>
            LET m == emitted[i]
                f == fetched[m.ref]
                kept == DOMAIN f \ Deleted
            IN  /\ DOMAIN m.meta = kept \cup DOMAIN metadata \cup {"num", "extension"}
                /\ \A k \in kept \ {"num", "extension", "tags"} : m.meta[k] = f[k]
                /\ m.meta.tags = [j \in DOMAIN f.tags |-> f.tags[j].name]
                /\ \A k \in DOMAIN metadata \ (kept \cup {"num", "extension"}) :
                       m.meta[k] = metadata[k]
                /\ ResolverFields(m, f)

\* C7, amended: in every Url message the record is the work's fields (without
\* meta_single_page, image_urls and meta_pages, tags flattened to names), overlaid by
\* the context, overlaid by the resolver's extension and suffix: where the context and
\* the work share a key the context's value stands.
C7_ContextOverWork ==
    \A i \in DOMAIN emitted :
        emitted[i].type = "Url" =>
            LET m == emitted[i]
                f == fetched[m.ref]
                kept == DOMAIN f \ Deleted
            IN  /\ DOMAIN m.meta = kept \cup DOMAIN metadata \cup {"num", "extension"}
                /\ \A k \in DOMAIN metadata \ {"num", "extension"} : m.meta[k] = metadata[k]
                /\ \A k \in kept \ (DOMAIN metadata \cup {"num", "extension", "tags"}) :
                       m.meta[k] = f[k]
                /\ "tags" \notin DOMAIN metadata =>
                       m.meta.tags = [j \in DOMAIN f.tags |-> f.tags[j].name]
                /\ ResolverFields(m, f)

C7_Witness ==
    /\ self.subcategory = "user"
    /\ Len(emitted) >= 3
    /\ emitted[3].type = "Url"
    /\ fetched[emitted[3].ref].user = [id |-> 12, account |-> "artist"]
    /\ emitted[3].meta.user = [id |-> 12, account |-> "artist", comment |-> "hello"]
    /\ emitted[3].meta.tags = <<"tagA", "TagB">>
    /\ emitted[3].meta.extension = Png
    /\ emitted[3].meta.num = << >>

----------------------------------------------------------------------------
(* C8 *)

\* C8: in a run of an API-backed variant the messages are a Version message, then a
\* Directory message carrying the context, then Url messages only, in this order;
\* once the context has been obtained and the generator has been resumed past the
\* Directory message both are there, each once, also when no work follows or every
\* work is skipped; a run whose get_metadata() raises has emitted nothing.
C8_MessageOrder ==
    self.subcategory # "me" =>
        /\ \A i \in DOMAIN emitted :
               emitted[i].type = (IF i = 1 THEN "Version"
                                  ELSE IF i = 2 THEN "Directory" ELSE "Url")
        /\ Len(emitted) >= 1 => emitted[1] = Version
        /\ Len(emitted) >= 2 => emitted[2] = Directory(metadata)
        /\ pc \in {"directory", "for", "wait", "body", "zip", "page", "done"} =>
               Len(emitted) >= 2
        /\ pc = "raised" => IF metadata = None THEN emitted = << >> ELSE Len(emitted) >= 2

C8_Witness ==
    /\ self.subcategory = "favorite"
    /\ pc = "done"
    /\ Len(fetched) = 2
    /\ emitted = <<Version, Directory([user_bookmark |-> ServerProfile(12)])>>

----------------------------------------------------------------------------
(* C9 *)

\* C9: a run of the pixiv.me variant sends one HEAD request and nothing else: no
\* login, no _call, no _pagination. On status 404 it raises NotFoundError("user") with
\* nothing emitted; otherwise it emits Version and then one Queue message carrying the
\* Location header of the response, and never a Url message.
C9_Shortlink ==
    self.subcategory = "me" =>
        /\ calls = 0 /\ pagState = "none" /\ cache = << >> /\ user_info = None
        /\ pc = "start" => net = << >> /\ emitted = << >>
        /\ pc # "start" =>
               /\ Len(net) = 1
               /\ net[1] = [method |-> "HEAD", url |-> <<"https://pixiv.me/", self.account>>]
               /\ pc \in {"raised", "version", "done"}
               /\ pc = "raised" <=> resp.status = 404
        /\ pc = "raised" => exc = "NotFoundError(user)" /\ emitted = << >>
        /\ pc = "version" => emitted = <<Version>>
        /\ pc = "done" => emitted = <<Version, Queue(resp.headers["Location"])>>

C9_Witness ==
    /\ self.subcategory = "me"
    /\ pc = "done"
    /\ Len(net) = 1
    /\ net[1].method = "HEAD"
    /\ resp.status = 302
    /\ emitted = <<Version, [type |-> "Queue", url |-> "https://www.pixiv.net/member.php?id=13",
                             meta |-> EmptyDict]>>

----------------------------------------------------------------------------
(* C10 *)

\* C10: the loop body on a work whose owner id is 0 sends no request, emits no message
\* and goes back to the for statement, which asks for the next work; no Url message
\* is ever emitted for such a work.
C10_ZeroOwnerSkipped ==
    /\ [][ (pc = "body" /\ fetched[Len(fetched)].user.id = 0) =>
               (net' = net /\ emitted' = emitted /\ calls' = calls /\ pc' = "for") ]_vars
    /\ [](\A ref \in DOMAIN fetched : fetched[ref].user.id = 0 => UrlsOf(ref) = << >>)

C10_Witness ==
    /\ Len(fetched) = 2
    /\ fetched[1].user.id = 0
    /\ fetched[1].type = "ugoira"
    /\ LoadingEnabled
    /\ UrlsOf(1) = << >>
    /\ UgoiraFetches = 0
    /\ Len(UrlsOf(2)) = 1

----------------------------------------------------------------------------
(* C11 *)

\* C11: once a work has been resolved to its end, the dict obtained from the API (the
\* object heap holds) still has every field it was fetched with, with the same value.
C11_SourceUnchanged ==
    \A ref \in DOMAIN fetched :
        Resolved(ref) =>
            /\ DOMAIN fetched[ref] \subseteq DOMAIN heap[ref]
            /\ \A k \in DOMAIN fetched[ref] : heap[ref][k] = fetched[ref][k]

----------------------------------------------------------------------------
(* C12 *)

\* C12: a login() or _call() that sends no token POST is answered by a cache entry
\* that a login of the same username and password created: one of another password
\* for the same username never answers it.
C12_KeyedByIdentity ==
    [][ (calls' = calls + 1 /\ Posts(net') = Posts(net)) =>
            /\ Me \in DOMAIN lastLogin
            /\ username \in DOMAIN cache
            /\ cache[username].expires = lastLogin[Me].at + maxage ]_vars

----------------------------------------------------------------------------
(* C13, C14 *)

\* the mode of the query in lower case, "daily" when the query has none
GivenMode == IF "mode" \in DOMAIN self.match THEN Lower(self.match.mode) ELSE "daily"

\* the name of the mode the run works with
ModeName == IF GivenMode \in DOMAIN modes THEN GivenMode ELSE "daily"

Warned(what) == \E i \in DOMAIN log : log[i][1] = "warning" /\ log[i][2] = what

\* the GET requests sent to endpoint ep so far
GetRequests(ep) ==
    { net[i] : i \in { j \in DOMAIN net : net[j].method = "GET" /\ net[j].url = ep } }

\* C13 as stated: a mode outside the enumeration counts as daily and is warned about, a
\* mode of the enumeration gives its mapped mode without a warning, and this mapped
\* mode is both what the ranking endpoint is sent and what the context record holds.
C13_MappedModeEverywhere ==
    self.subcategory = "ranking" =>
        /\ Warned("invalid mode") <=> GivenMode \notin DOMAIN modes
        /\ \A g \in GetRequests("v1/illust/ranking") : g.params.mode = modes[ModeName]
        /\ Len(emitted) >= 2 => emitted[2].meta.ranking.mode = modes[ModeName]

\* C13, amended: a mode that, in lower case, is outside the enumeration counts as daily
\* and is warned about, a mode of the enumeration is taken without a warning; the
\* ranking endpoint is sent the mapped mode (week_r18 for weekly_r18, day for daily),
\* the context record holds the mode's name (weekly_r18, daily).
C13_ModeDefaulting ==
    self.subcategory = "ranking" =>
        /\ Warned("invalid mode") <=> GivenMode \notin DOMAIN modes
        /\ self.mode = modes[ModeName]
        /\ \A g \in GetRequests("v1/illust/ranking") : g.params.mode = modes[ModeName]
        /\ Len(emitted) >= 2 => emitted[2].meta.ranking.mode = ModeName

C13_Witness ==
    /\ self.subcategory = "ranking"
    /\ "mode" \in DOMAIN self.match
    /\ self.match.mode = "bogus"
    /\ log[1] = <<"warning", "invalid mode", "bogus">>
    /\ \E g \in GetRequests("v1/illust/ranking") : g.params.mode = "day"
    /\ Len(emitted) >= 2
    /\ emitted[2].meta.ranking.mode = "daily"

\* the date of the query is made of eight of the digits 0 to 9
EightDigits(d) ==
    /\ Len(d) = 8
    /\ \A i \in DOMAIN d : d[i] \in {"0", "1", "2", "3", "4", "5", "6", "7", "8", "9"}

\* C14: a date of eight digits YYYYMMDD gives YYYY-MM-DD without a warning, any other
\* date the query carries gives the day before the current UTC day and a warning, a
\* query without a date gives that day without a warning; the ranking endpoint and the
\* context record get this date.
C14_DateDefaulting ==
    self.subcategory = "ranking" =>
        LET supplied == "date" \in DOMAIN self.match
            valid == supplied /\ EightDigits(self.match.date)
            d == self.match.date
        IN  /\ self.date = IF valid
                           THEN <<d[1], d[2], d[3], d[4], "-", d[5], d[6], "-", d[7], d[8]>>
                           ELSE <<"1", "9", "6", "9", "-", "1", "2", "-", "3", "1">>
            /\ Warned("invalid date") <=> (supplied /\ ~valid)
            /\ \A g \in GetRequests("v1/illust/ranking") : g.params.date = self.date
            /\ Len(emitted) >= 2 => emitted[2].meta.ranking.date = self.date

C14_Witness ==
    /\ self.subcategory = "ranking"
    /\ "date" \in DOMAIN self.match
    /\ self.match.date = <<"2", "0", "1", "7", "-", "0", "8", "-", "1", "8">>
    /\ now = 0
    /\ self.date = <<"1", "9", "6", "9", "-", "1", "2", "-", "3", "1">>
    /\ Warned("invalid date")
    /\ \E g \in GetRequests("v1/illust/ranking") : g.params.date = self.date
    /\ Len(emitted) >= 2

\* the list requests sent so far, in order
ListRequests == SelectSeq(net, LAMBDA m : m.method = "GET")

\* the records held by the first p pages received
HeldBy(p) == Len(Flatten([i \in 1..p |-> pagesSeen[i].illusts]))

\* the page that holds the n-th record yielded
PageOf(n) == CHOOSE p \in DOMAIN pagesSeen : HeldBy(p - 1) < n /\ n <= HeldBy(p)

\* the page in hand is used up and names a following page
Exhausted == pagState = "iter" /\ idx = Len(data.illusts) /\ Truthy(data.next_url)

IsTrailing(t, s) ==
    /\ \A i \in DOMAIN t : t[i] # "="
    /\ \/ t = s
       \/ /\ Len(t) < Len(s)
          /\ s[Len(s) - Len(t)] = "="
          /\ t = SubSeq(s, Len(s) - Len(t) + 1, Len(s))

\* C16: the first list request of a _pagination carries no offset; every later one
\* carries as offset the text after the last "=" of the next_url of the response
\* received just before it; the other parameters, and the endpoint, are those of the
\* first request in every request.
C16_Cursor ==
    \A i \in DOMAIN ListRequests :
        /\ ListRequests[i].url = ListRequests[1].url
        /\ DOMAIN ListRequests[i].params \ {"offset"} = DOMAIN ListRequests[1].params
        /\ \A k \in DOMAIN ListRequests[1].params :
               ListRequests[i].params[k] = ListRequests[1].params[k]
        /\ i = 1 => "offset" \notin DOMAIN ListRequests[i].params
        /\ i > 1 =>
               /\ "offset" \in DOMAIN ListRequests[i].params
               /\ IsTrailing(ListRequests[i].params.offset, pagesSeen[i - 1].next_url.str)

\* three requests: the second page named another offset than the first, and the third
\* request carries the second page's
C16_Witness ==
    /\ Len(ListRequests) = 3
    /\ Len(pagesSeen) >= 2
    /\ pagesSeen[1].next_url = Str(<<"?", "o", "=", "3", "0">>)
    /\ pagesSeen[2].next_url = Str(<<"?", "i", "=", "1", "&", "o", "=", "6", "0">>)
    /\ ListRequests[2].params.offset = <<"3", "0">>
    /\ ListRequests[3].params.offset = <<"6", "0">>
    /\ ListRequests[3].params.user_id = 11

\* C17: when the token endpoint answers a login with a status from 400 on, the call
\* raises AuthenticationError, and only then; the step that raises it sends the token
\* POST and no GET, and leaves user_info and the Authorization header as they were;
\* after it the run sends nothing and emits nothing.
C17_LoginFailureAborts ==
    /\ [][ (Posts(net') > Posts(net) /\ net'[Len(net')].method = "POST"
                                     /\ resp'.status >= 400)
            <=> (exc # "AuthenticationError" /\ exc' = "AuthenticationError") ]_vars
    /\ [][ (exc # "AuthenticationError" /\ exc' = "AuthenticationError") =>
              /\ Gets(net') = Gets(net)
              /\ Posts(net') = Posts(net) + 1
              /\ user_info' = user_info
              /\ headers' = headers
              /\ emitted' = emitted ]_vars
    /\ [][ exc = "AuthenticationError" =>
              /\ exc' = exc
              /\ net' = net
              /\ emitted' = emitted
              /\ user_info' = user_info
              /\ headers' = headers ]_vars

\* a login that failed after the cached one expired, in the middle of a run that had
\* emitted descriptors: the profile and the header of the earlier login are still there
C17_Witness ==
    /\ exc = "AuthenticationError"
    /\ Posts(net) = 2
    /\ net[Len(net)].method = "POST"
    /\ user_info = ServerUser("u1")
    /\ headers = ("Authorization" :> Bearer("tokA"))
    /\ \E i \in DOMAIN emitted : emitted[i].type = "Url"

\* C18: every descriptor handed to the consumer keeps the suffix and the extension it
\* was handed over with: what the consumer finds under a descriptor it has kept is
\* what the descriptor held at its yield, whatever was produced after it.
C18_OwnRecord ==
    \A i \in DOMAIN emitted :
        emitted[i].type = "Url" =>
            /\ heap[emitted[i].ref].num = emitted[i].meta.num
            /\ heap[emitted[i].ref].extension = emitted[i].meta.extension

\* the requests sent to endpoint ep, by their place in net
RequestsTo(ep) == { i \in DOMAIN net : net[i].method = "GET" /\ net[i].url = ep }

\* C19: in a run of the single-work variant get_metadata has returned before works()
\* is called and before any work is taken; the run sends one illust/detail request,
\* as its first request, and no user/detail request; the context is the "user" member
\* of the record that request brought, self.work is that record, and works() is the
\* tuple of that one record; a 404 to the illust/detail request raises NotFoundError
\* with no message emitted.
C19_SingleWork ==
    /\ [](self.subcategory = "work" =>
            /\ RequestsTo("v1/user/detail") = {}
            /\ Cardinality(RequestsTo("v1/illust/detail")) <= 1
            /\ pc = "start" =>
                   /\ RequestsTo("v1/illust/detail") = {}
                   /\ metadata = None
            /\ pc \in {"start", "version", "directory", "raised"} /\ Gets(net) <= 1 =>
                   worksIt = << >> /\ fetched = << >>
            /\ pc \notin {"start", "raised"} =>
                   /\ Cardinality(RequestsTo("v1/illust/detail")) = 1
                   /\ net[2].url = "v1/illust/detail"
                   /\ net[2].params = [illust_id |-> self.illust_id]
                   /\ self.work # None
                   /\ metadata = [user |-> self.work.user]
                   /\ Len(worksIt) + Len(fetched) <= 1
                   /\ \A i \in DOMAIN worksIt : worksIt[i] = self.work
                   /\ \A i \in DOMAIN fetched : fetched[i] = self.work
            /\ pc = "done" => Len(fetched) = 1
            /\ exc = "NotFoundError" /\ Gets(net) = 1 => emitted = << >>)
    /\ [][ (self.subcategory = "work" /\ pc = "start") =>
              /\ (exc' = "" <=> (Gets(net') = 1 /\ resp'.status \in 200..399))
              /\ (exc' = "NotFoundError" <=> (Gets(net') = 1 /\ resp'.status = 404))
              /\ exc' # "" => (pc' = "raised" /\ emitted' = << >>)
              /\ exc' = "" =>
                    /\ self'.work = resp'.body.illust
                    /\ metadata' = [user |-> resp'.body.illust.user] ]_vars

\* a finished run over a work of three pages: one illust/detail request, the work
\* taken once, its owner as the context
C19_Witness ==
    /\ self.subcategory = "work"
    /\ pc = "done"
    /\ Cardinality(RequestsTo("v1/illust/detail")) = 1
    /\ Len(fetched) = 1
    /\ fetched[1].page_count = 3
    /\ metadata = [user |-> fetched[1].user]
    /\ emitted[2] = Directory(metadata)
    /\ Len(emitted) = 5

\* the token POSTs answered with a token, by their place in tokenPosts
Granted == { i \in DOMAIN tokenPosts : tokenPosts[i].ok }

\* C20: the threads share the cache and nothing else: a step of one thread leaves the
\* other thread's client and locals alone. On a host that serializes login(), two
\* granted token POSTs of one identity are made by calls that began at least maxage
\* seconds apart, however many calls the threads make.
C20_SerializedOncePerWindow ==
    /\ [](serialized =>
            \A i, j \in Granted :
                (i < j /\ tokenPosts[i].id = tokenPosts[j].id) =>
                    tokenPosts[j].timestamp >= tokenPosts[i].timestamp + maxage)
    /\ [][ \A t, o \in Threads :
              (t # o /\ thread'[t] # thread[t]) => thread'[o] = thread[o] ]_vars
    /\ [][ /\ user_info' = user_info
           /\ headers' = headers
           /\ username' = username
           /\ password' = password ]_vars

\* on a host that does not serialize, two threads of one identity have both found the
\* cache empty at time 0 and have both been granted a token
C20_Witness ==
    /\ ~serialized
    /\ Len(tokenPosts) = 2
    /\ Granted = {1, 2}
    /\ tokenPosts[1].id = tokenPosts[2].id
    /\ tokenPosts[1].by # tokenPosts[2].by
    /\ tokenPosts[1].timestamp = 0
    /\ tokenPosts[2].timestamp = 0
    /\ Posts(net) = 2

====
